---- MODULE Spec2Model ----
(***************************************************************************)
(* loki-helper: the collection Initializer (initialize / shouldRebuild /   *)
(* create / rebuild) and the validated collection operations layered on a  *)
(* LokiJS collection (lib/collection.js), over one database that holds one *)
(* collection name.                                                        *)
(*                                                                         *)
(* JavaScript values are modelled by strings: UNDEF is a missing property  *)
(* (reading it yields undefined), NULL is null, ZERO is the number 0 (a    *)
(* falsy value that is not null), JSFALSE is the boolean false, "a" and "b"  *)
(* are non-empty strings and Mappings are nested objects over one key x.   *)
(* A record is [loki, meta, slug, content, isDisabled]; loki = AbsentID    *)
(* says the object has no $loki property.  meta stands for the metadata    *)
(* mapping without the counters and timestamps that only the engine's own  *)
(* insert/update maintain: "{}" is metadata with engine keys only, "{x:1}" *)
(* is metadata that also carries a foreign key x.                          *)
(***************************************************************************)
EXTENDS Integers, Sequences, FiniteSets, TLC

VARIABLES
    present,          \* db.getCollection(name) is not null
    data,             \* collection.data: the live records, in storage order
    maxId,            \* collection.maxId: the last storage ID handed out
    uniqueNames,      \* collection.uniqueNames: the enforced unique fields
    registry,         \* db.collections: the names registered, in order
    siblings,         \* the collections registered under other names
    promise,          \* the promise the last load/save/delete helper returned
    run,              \* the initialize() calls made in a row: the record count
                      \* before the first, and whether one of them failed
    constructed,      \* an Initializer has been constructed
    uniqueKeys,       \* Initializer member: the required unique fields
    collectionSchema, \* Initializer member: schema of the whole data set
    objectSchema,     \* Initializer member / extensionMethods closure
    pc,               \* position inside a running initialize()/create()/rebuild()
    existingData,     \* rebuild()'s local existingData.value
    calls,            \* hooks and database calls made by the running/last call
    pre,              \* the collection as it was when the last Initializer call began
    lastOp,           \* the last operation called
    err,              \* how it ended: "none" (running), "ok", or the error thrown
    returned,         \* the record getByID / removeByID returned, else NoDoc
    answer,           \* "true" / "false" a check returned, "collection" when
                      \* initialize() returned the registered collection,
                      \* else "none"
    asked             \* the names the last check was asked about, else NoInput

vars == <<present, data, maxId, uniqueNames, registry, siblings, promise, run,
          constructed, uniqueKeys, collectionSchema,
          objectSchema, pc, existingData, calls, pre, lastOp, err, returned,
          answer, asked>>

dbVars == <<present, data, maxId, uniqueNames, registry>>
cfgVars == <<constructed, uniqueKeys, collectionSchema, objectSchema>>

----------------------------------------------------------------------------
(* Bounds *)

\* the engine's ID counter is capped: inserts are offered while maxId < MaxId
MaxId == 2

\* the longest sequence of unique keys an Initializer is constructed with
MaxKeys == 2

\* the most times the engine is let fire the callback of one helper call
MaxReports == 2

----------------------------------------------------------------------------
(* Values *)

UNDEF == "undefined"
NULL == "null"
ZERO == "0"
JSFALSE == "false"
Strings == {"a", "b"}
Mappings == {"{}", "{x:1}", "{x:2}"}
Fields == {"slug", "content", "isDisabled"}

\* the fields a collection may be made to enforce uniqueness on
UniqueCandidates == {"slug", "content"}

EMPTY == ""
SEVEN == "7"
JSTRUE == "true"

\* `doc` carries no $loki property
AbsentID == -1000

\* IDs that are no numbers: null, and a string that is not numeric ('xxx')
NullID == -1001
TextID == -1002

\* the decimal string of the number n ("1", "2", ...)
StringID(n) == -2000 - n

\* no object at all (the optional `existing` argument left out)
NoDoc == [loki |-> AbsentID, meta |-> "none", slug |-> "none",
          content |-> "none", isDisabled |-> "none"]

\* JavaScript truthiness (`keyValue && ...`)
Truthy(v) == v \notin {UNDEF, NULL, ZERO, JSFALSE}

\* neither null nor undefined
NonNull(v) == v \notin {UNDEF, NULL}

Range(s) == {s[i] : i \in 1..Len(s)}

----------------------------------------------------------------------------
(* lib/object.js *)

\* stripLokiProperties: a copy of the object without $loki and meta
StripLokiProperties(doc) == [doc EXCEPT !.loki = AbsentID, !.meta = UNDEF]

StripAll(s) == [i \in 1..Len(s) |-> StripLokiProperties(s[i])]

----------------------------------------------------------------------------
(* The schemas the Initializer is configured with.  "any" is Joi.any(), the *)
(* default of both schema parameters; "object" and "array" are the record  *)
(* and collection schemas of the extension-method tests.                   *)

ObjectSchemas == {"any", "object"}
CollectionSchemas == {"any", "array"}

\* objectSchema.validate(doc).error
ObjectSchemaError(schema, doc) ==
    /\ schema = "object"
    /\ \/ doc.slug \notin Strings
       \/ doc.content \notin Strings \cup {UNDEF}
       \/ doc.isDisabled \notin {JSFALSE, UNDEF}

\* objectSchema.validate(doc).value
ObjectSchemaValue(schema, doc) ==
    IF schema = "object" /\ doc.isDisabled = UNDEF
    THEN [doc EXCEPT !.isDisabled = JSFALSE]
    ELSE doc

\* collectionSchema.validate(docs).error
CollectionSchemaError(schema, docs) ==
    /\ schema = "array"
    /\ \/ \E i \in 1..Len(docs) : ObjectSchemaError("object", docs[i])
       \/ \E i, j \in 1..Len(docs) : i # j /\ docs[i].slug = docs[j].slug

\* collectionSchema.validate(docs).value
CollectionSchemaValue(schema, docs) ==
    IF schema = "array"
    THEN [i \in 1..Len(docs) |-> ObjectSchemaValue("object", docs[i])]
    ELSE docs

----------------------------------------------------------------------------
(* The collection engine (LokiJS), at the interface the helpers consume.   *)
(* Each operation yields [err, data, maxId]: err = "ok" or the error kind. *)

\* a unique index refuses a value that another live record already holds
DuplicateKey(d, U, doc, selfId) ==
    \E f \in U : /\ NonNull(doc[f])
                 /\ \E i \in 1..Len(d) : d[i].loki # selfId /\ d[i][f] = doc[f]

\* collection.get(id): the position of the record, 0 when there is none
PosOf(d, id) ==
    IF \E i \in 1..Len(d) : d[i].loki = id
    THEN CHOOSE i \in 1..Len(d) : d[i].loki = id
    ELSE 0

\* collection.by(field, value) on a unique field: position, 0 when undefined
PosBy(d, f, v) ==
    IF NonNull(v) /\ \E i \in 1..Len(d) : d[i][f] = v
    THEN CHOOSE i \in 1..Len(d) : d[i][f] = v
    ELSE 0

\* collection.insert(doc) of one object
EngineInsertOne(d, mx, U, doc) ==
    IF doc.loki # AbsentID
    THEN [err |-> "Error", data |-> d, maxId |-> mx]
    ELSE IF DuplicateKey(d, U, doc, AbsentID)
    THEN [err |-> "Error", data |-> d, maxId |-> mx + 1]
    ELSE [err |-> "ok",
          data |-> Append(d, [doc EXCEPT !.loki = mx + 1,
                                         !.meta = IF doc.meta = UNDEF THEN "{}"
                                                  ELSE doc.meta]),
          maxId |-> mx + 1]

\* collection.insert(docs) of an array: one by one, stopping at the first throw
RECURSIVE EngineInsertAll(_, _, _, _)
EngineInsertAll(d, mx, U, docs) ==
    IF docs = <<>>
    THEN [err |-> "ok", data |-> d, maxId |-> mx]
    ELSE LET r == EngineInsertOne(d, mx, U, Head(docs))
         IN IF r.err # "ok" THEN r
            ELSE EngineInsertAll(r.data, r.maxId, U, Tail(docs))

\* collection.update(doc)
EngineUpdate(d, mx, U, doc) ==
    IF doc.loki = AbsentID \/ PosOf(d, doc.loki) = 0 \/ DuplicateKey(d, U, doc, doc.loki)
    THEN [err |-> "Error", data |-> d, maxId |-> mx]
    ELSE [err |-> "ok", data |-> [d EXCEPT ![PosOf(d, doc.loki)] = doc], maxId |-> mx]

\* collection.remove(doc)
EngineRemove(d, id) ==
    SelectSeq(d, LAMBDA r : r.loki # id)

----------------------------------------------------------------------------
(* lib/collection.js: constraint introspection *)

\* valueToArray(input): an array as it is, any other value wrapped in one.
\* An argument is [kind, value, items]: kind "array" with its items, or kind
\* "value" with its value, UNDEF when the argument is left out.
valueToArray(input) == IF input.kind = "array" THEN input.items ELSE <<input.value>>

\* _.difference(array, values): the items of array not among values, in order
difference(array, values) == SelectSeq(array, LAMBDA x : x \notin values)

\* the array an Initializer keeps its validated unique keys in
RECURSIVE SetToSeq(_)
SetToSeq(S) ==
    IF S = {} THEN <<>>
    ELSE LET x == CHOOSE y \in S : TRUE IN <<x>> \o SetToSeq(S \ {x})

ArrayOf(S) == [kind |-> "array", value |-> UNDEF, items |-> SetToSeq(S)]

\* no check was made
NoInput == [kind |-> "none", value |-> UNDEF, items |-> <<>>]

\* mutant: the difference taken the wrong way round
hasUniqueProperties_Reversed(names, keys) == names \ Range(valueToArray(keys)) = {}

\* mutant: one enforced name among the given ones is enough
hasUniqueProperties_Overlap(names, keys) ==
    \/ valueToArray(keys) = <<>>
    \/ \E i \in 1..Len(valueToArray(keys)) : valueToArray(keys)[i] \in names

\* hasUniqueProperties(collection, uniqueKeys), names = collection.uniqueNames || []:
\* _.difference(valueToArray(uniqueKeys), names).length === 0
hasUniqueProperties(names, keys) == Len(difference(valueToArray(keys), names)) = 0

----------------------------------------------------------------------------
(* lib/collection.js: the Initializer.  initialize(), create() and         *)
(* rebuild() run step by step: the lifecycle hooks are overridable, so the *)
(* database is observable between any two of their steps.  While a call    *)
(* runs (pc # "idle") nothing else does: the library is synchronous.       *)

\* the last call was not initialize()
NoRun == [first |-> 0, failed |-> FALSE]

\* no helper was called
NoPromise == [op |-> "none", state |-> "none", value |-> UNDEF, reports |-> <<>>,
              settled |-> 0]

\* the name the Initializer is configured with, and the other names in use
collectionName == "TESTS"

OtherNames == {"c1", "c2"}

\* a name that is not registered holds nothing
NoSibling == [count |-> 0, unique |-> {}]

\* db.removeCollection(name): the collection of that name is taken off db.collections
Unregistered(names, name) == SelectSeq(names, LAMBDA n : n # name)

Snapshot == [present |-> present, data |-> data, maxId |-> maxId,
             uniqueNames |-> uniqueNames]

NoSnapshot == [present |-> FALSE, data |-> <<>>, maxId |-> 0, uniqueNames |-> {}]

\* mutant: only the presence of the collection is looked at
shouldRebuild_PresenceOnly == ~present

\* shouldRebuild()
shouldRebuild == ~(present /\ hasUniqueProperties(uniqueNames, ArrayOf(uniqueKeys)))

\* a call of the Initializer begins
Begin(op, at) ==
    /\ pc = "idle" /\ constructed
    /\ pc' = at
    /\ lastOp' = op
    /\ err' = "none"
    /\ calls' = <<>>
    /\ pre' = Snapshot
    /\ existingData' = <<>>
    /\ returned' = NoDoc
    /\ answer' = "none"
    /\ asked' = NoInput
    /\ run' = IF op # "initialize" THEN NoRun
              ELSE IF lastOp = "initialize" THEN run
              ELSE [first |-> Len(data), failed |-> FALSE]
    /\ UNCHANGED <<dbVars, cfgVars, siblings, promise>>

\* the running call goes on to `at`, having made the call `what`
Step(what, at) ==
    /\ pc' = at
    /\ calls' = Append(calls, what)
    /\ err' = IF at = "idle" THEN "ok" ELSE "none"
    /\ UNCHANGED <<cfgVars, siblings, promise, run, pre, lastOp, returned, answer, asked>>

\* the running call throws `kind`
Throw(kind) ==
    /\ pc' = "idle"
    /\ err' = kind
    /\ run' = IF lastOp = "initialize" THEN [run EXCEPT !.failed = TRUE] ELSE run
    /\ UNCHANGED <<cfgVars, siblings, promise, pre, lastOp, returned, answer, asked>>

\* mutant: the items are checked, duplicates are not
uniqueKeysError_Duplicates(array) ==
    \E i \in 1..Len(array) : array[i] \notin UniqueCandidates \cup Strings

\* Schema.uniqueKeys.validate(array).error:
\* Joi.array().items(Joi.string().min(1)).unique()
uniqueKeysError(array) ==
    \/ \E i \in 1..Len(array) : array[i] \notin UniqueCandidates \cup Strings
    \/ \E i, j \in 1..Len(array) : i # j /\ array[i] = array[j]

\* Initializer(db, collectionName, _uniqueKeys = [], ...): the factory
Initializer(input) ==
    /\ pc = "idle" /\ ~constructed
    /\ LET array == IF input.kind = "value" /\ input.value = UNDEF
                    THEN <<>> ELSE valueToArray(input)
       IN IF uniqueKeysError(array)
          THEN /\ err' = "ValidationError(uniqueKeys)"
               /\ UNCHANGED <<constructed, uniqueKeys>>
          ELSE /\ err' = "ok"
               /\ constructed' = TRUE
               /\ uniqueKeys' = Range(array)
    /\ lastOp' = "Initializer"
    /\ calls' = <<>>
    /\ pre' = NoSnapshot
    /\ run' = NoRun
    /\ UNCHANGED <<dbVars, siblings, promise, collectionSchema, objectSchema, pc, existingData, returned,
                   answer, asked>>

\* a check gives its answer
Answer(op, value, made, input) ==
    /\ pc = "idle"
    /\ lastOp' = op
    /\ err' = "ok"
    /\ answer' = IF value THEN "true" ELSE "false"
    /\ asked' = input
    /\ run' = NoRun
    /\ calls' = made
    /\ pre' = NoSnapshot
    /\ returned' = NoDoc
    /\ UNCHANGED <<dbVars, cfgVars, siblings, promise, pc, existingData>>

\* shouldRebuild(), called on its own
shouldRebuildCall ==
    /\ constructed
    /\ Answer("shouldRebuild", shouldRebuild, <<"getCollection">>, ArrayOf(uniqueKeys))

\* hasUniqueProperties(collection, uniqueKeys), called on its own with the
\* collection registered under the name
hasConstraint(keys) ==
    /\ present
    /\ Answer("hasUniqueProperties", hasUniqueProperties(uniqueNames, keys), <<>>, keys)

\* mutant: initialize() rebuilds whatever shouldRebuild() says
initialize_AlwaysRebuild ==
    /\ pc = "idle"
    /\ Begin("initialize", "rebuild")

\* initialize(): if (this.shouldRebuild()) this.rebuild()
initialize ==
    /\ pc = "idle"
    /\ Begin("initialize", IF shouldRebuild THEN "rebuild" ELSE "return")

\* initialize(): return Object.assign(db.getCollection(name), extensionMethods)
initializeReturn ==
    /\ pc = "return"
    /\ pc' = "idle"
    /\ err' = "ok"
    /\ answer' = "collection"
    /\ UNCHANGED <<dbVars, cfgVars, siblings, promise, run, existingData, calls, pre, lastOp,
                   returned, asked>>

\* create(), called on its own: the collection is assumed absent
create ==
    /\ ~present
    /\ Begin("create", "create")

\* create(): this.preCreate()
preCreate ==
    /\ pc = "create"
    /\ Step("preCreate", "addCollection")
    /\ UNCHANGED <<dbVars, existingData>>

\* mutant: the collection is added without its unique field names
addCollection_Unconstrained ==
    /\ pc = "addCollection"
    /\ present' = TRUE
    /\ registry' = Append(registry, collectionName)
    /\ data' = <<>>
    /\ maxId' = 0
    /\ uniqueNames' = {}
    /\ Step("addCollection", "postCreate")
    /\ UNCHANGED existingData

\* create(): this.db.addCollection(name, { unique: this.uniqueKeys })
addCollection ==
    /\ pc = "addCollection"
    /\ present' = TRUE
    /\ registry' = Append(registry, collectionName)
    /\ data' = <<>>
    /\ maxId' = 0
    /\ uniqueNames' = uniqueKeys
    /\ Step("addCollection", "postCreate")
    /\ UNCHANGED existingData

\* mutant: rebuild() fires postRebuild() before the data is inserted back
postCreate_SkipInsert ==
    /\ pc = "postCreate"
    /\ Step("postCreate", IF lastOp = "create" THEN "idle" ELSE "postRebuild")
    /\ UNCHANGED <<dbVars, existingData>>

\* create(): this.postCreate(), and back to the caller
postCreate ==
    /\ pc = "postCreate"
    /\ Step("postCreate",
            IF lastOp = "create" THEN "idle"
            ELSE IF "removeCollection" \in Range(calls) THEN "insert"
            ELSE "postRebuild")
    /\ UNCHANGED <<dbVars, existingData>>

\* rebuild(), called on its own
rebuild ==
    /\ pc = "idle"
    /\ Begin("rebuild", "rebuild")

\* rebuild(): this.preRebuild()
preRebuild ==
    /\ pc = "rebuild"
    /\ Step("preRebuild", "validate")
    /\ UNCHANGED <<dbVars, existingData>>

\* mutant: the collection is removed before its data is validated
rebuildValidate_RemoveFirst ==
    /\ pc = "validate"
    /\ LET stripped == StripAll(data)
       IN IF ~present
          THEN /\ Step("getCollection", "create")
               /\ UNCHANGED <<dbVars, existingData>>
          ELSE /\ present' = FALSE
               /\ registry' = Unregistered(registry, collectionName)
               /\ data' = <<>>
               /\ maxId' = 0
               /\ uniqueNames' = {}
               /\ IF CollectionSchemaError(collectionSchema, stripped)
                  THEN /\ Throw("ValidationError(schema)")
                       /\ calls' = Append(calls, "validate")
                       /\ UNCHANGED existingData
                  ELSE /\ Step("validate", "create")
                       /\ existingData' = CollectionSchemaValue(collectionSchema, stripped)

\* mutant: the stripped records are inserted back as they were, not as validated
rebuildValidate_Unvalidated ==
    /\ pc = "validate"
    /\ LET stripped == StripAll(data)
       IN IF ~present
          THEN /\ Step("getCollection", "create")
               /\ UNCHANGED existingData
          ELSE IF CollectionSchemaError(collectionSchema, stripped)
          THEN /\ Throw("ValidationError(schema)")
               /\ calls' = Append(calls, "validate")
               /\ UNCHANGED existingData
          ELSE /\ Step("validate", "removeCollection")
               /\ existingData' = stripped
    /\ UNCHANGED dbVars

\* rebuild(): getCollection, and the validation of the stripped existing data
rebuildValidate ==
    /\ pc = "validate"
    /\ LET stripped == StripAll(data)
       IN IF ~present
          THEN /\ Step("getCollection", "create")
               /\ UNCHANGED existingData
          ELSE IF CollectionSchemaError(collectionSchema, stripped)
          THEN /\ Throw("ValidationError(schema)")
               /\ calls' = Append(calls, "validate")
               /\ UNCHANGED existingData
          ELSE /\ Step("validate", "removeCollection")
               /\ existingData' = CollectionSchemaValue(collectionSchema, stripped)
    /\ UNCHANGED dbVars

\* rebuild(): this.db.removeCollection(name)
removeCollection ==
    /\ pc = "removeCollection"
    /\ present' = FALSE
    /\ registry' = Unregistered(registry, collectionName)
    /\ data' = <<>>
    /\ maxId' = 0
    /\ uniqueNames' = {}
    /\ Step("removeCollection", "create")
    /\ UNCHANGED existingData

\* mutant: postRebuild() fires even when the insert throws
rebuildInsert_Finally ==
    /\ pc = "insert"
    /\ LET r == EngineInsertAll(data, maxId, uniqueNames, existingData)
       IN /\ data' = r.data
          /\ maxId' = r.maxId
          /\ IF r.err = "ok"
             THEN Step("insert", "postRebuild")
             ELSE /\ Throw(r.err)
                  /\ calls' = Append(Append(calls, "insert"), "postRebuild")
    /\ UNCHANGED <<present, uniqueNames, registry, existingData>>

\* rebuild(): this.db.getCollection(name).insert(existingData.value)
rebuildInsert ==
    /\ pc = "insert"
    /\ LET r == EngineInsertAll(data, maxId, uniqueNames, existingData)
       IN /\ data' = r.data
          /\ maxId' = r.maxId
          /\ IF r.err = "ok"
             THEN Step("insert", "postRebuild")
             ELSE Throw(r.err) /\ calls' = Append(calls, "insert")
    /\ UNCHANGED <<present, uniqueNames, registry, existingData>>

\* rebuild(): this.postRebuild(), and back to the caller
postRebuild ==
    /\ pc = "postRebuild"
    /\ Step("postRebuild", IF lastOp = "initialize" THEN "return" ELSE "idle")
    /\ UNCHANGED <<dbVars, existingData>>

----------------------------------------------------------------------------
(* lib/collection.js: extensionMethods, the validated collection           *)
(* operations.  Each is synchronous and calls no hook: one action each.    *)

IsValidationError(e) ==
    e \in {"ValidationError(id)", "ValidationError(schema)", "ValidationError(unique)"}

\* an operation on the collection ends with `kind`, having made the calls
\* `made` to its sibling methods and to the engine, and returns `value`
DoneReturning(op, kind, made, value) ==
    /\ lastOp' = op
    /\ err' = kind
    /\ pc' = "idle"
    /\ calls' = made
    /\ pre' = NoSnapshot
    /\ existingData' = <<>>
    /\ returned' = value
    /\ answer' = "none"
    /\ asked' = NoInput
    /\ run' = NoRun
    /\ UNCHANGED <<present, uniqueNames, registry, cfgVars, siblings, promise>>

DoneAfter(op, kind, made) == DoneReturning(op, kind, made, NoDoc)

\* an operation on the collection ends with `kind`
Done(op, kind) == DoneAfter(op, kind, <<>>)

\* lokiID.validate(id).value, and what collection.get(id) looks up: Joi
\* converts a numeric string to its number, get() parses it
lokiIDValue(id) == IF id < -2000 THEN -2000 - id ELSE id

\* mutant: the ID is looked up without being validated
getByIDError_Unvalidated(d, id) ==
    IF PosOf(d, lokiIDValue(id)) = 0 THEN "ObjectNotFoundError" ELSE "ok"

\* getByID(id): what it throws, "ok" when it returns the record;
\* !id || lokiID.validate(id).error
getByIDError(d, id) ==
    IF id \in {AbsentID, NullID, TextID} \/ lokiIDValue(id) < 1
    THEN "ValidationError(id)"
    ELSE IF PosOf(d, lokiIDValue(id)) = 0 THEN "ObjectNotFoundError"
    ELSE "ok"

\* getByID(id)
getByID(id) ==
    /\ pc = "idle" /\ present
    /\ DoneReturning("getByID", getByIDError(data, id), <<>>,
                     IF getByIDError(data, id) = "ok"
                     THEN data[PosOf(data, lokiIDValue(id))] ELSE NoDoc)
    /\ UNCHANGED <<data, maxId>>

\* validateObjectSchema(doc) throws
validateObjectSchemaError(schema, doc) == ObjectSchemaError(schema, doc)

\* validateUniqueProperties(doc, existing) throws; existing = NoDoc when left out
validateUniquePropertiesError(d, U, doc, existing) ==
    \E key \in U :
        LET keyValue == doc[key]
            equalExisting == /\ existing # NoDoc
                             /\ Truthy(existing[key])
                             /\ keyValue = existing[key]
        IN Truthy(keyValue) /\ ~equalExisting /\ PosBy(d, key, keyValue) # 0

\* mutant: _.defaults in place of _.defaultsDeep, nested mappings are not merged
DefaultsDeepValue_Shallow(objValue, srcValue) ==
    IF objValue = UNDEF THEN srcValue ELSE objValue

\* _.defaultsDeep of one property: keep what is defined, merge nested mappings
DefaultsDeepValue(objValue, srcValue) ==
    IF objValue = UNDEF THEN srcValue
    ELSE IF objValue \in Mappings /\ srcValue \in Mappings
    THEN (IF objValue = "{}" THEN srcValue ELSE objValue)
    ELSE objValue

\* _.defaultsDeep(_.pick(existing, ['$loki', 'meta']), doc, existing)
Patched(existing, doc) ==
    [loki |-> existing.loki,
     meta |-> DefaultsDeepValue(DefaultsDeepValue(existing.meta, doc.meta), existing.meta),
     slug |-> DefaultsDeepValue(doc.slug, existing.slug),
     content |-> DefaultsDeepValue(doc.content, existing.content),
     isDisabled |-> DefaultsDeepValue(doc.isDisabled, existing.isDisabled)]

\* Object.assign({}, validated, _.pick(existing, ['$loki', 'meta']))
Replaced(existing, validated) ==
    [validated EXCEPT !.loki = existing.loki, !.meta = existing.meta]

\* validateUniqueProperties(doc, existing), called on its own
validateUniqueProperties(doc, existing) ==
    /\ pc = "idle" /\ present
    /\ Done("validateUniqueProperties",
            IF validateUniquePropertiesError(data, uniqueNames, doc, existing)
            THEN "ValidationError(unique)" ELSE "ok")
    /\ UNCHANGED <<data, maxId>>

\* mutant: the update path assigns onto the stored object instead of calling
\* the engine's update(), so no unique index is consulted
upsert_AssignInPlace(doc) ==
    /\ pc = "idle" /\ present
    /\ LET id == doc.loki
           r == IF id # AbsentID /\ id # 0 /\ PosOf(data, id) # 0
                THEN [err |-> "ok", data |-> [data EXCEPT ![PosOf(data, id)] = doc],
                      maxId |-> maxId]
                ELSE EngineInsertOne(data, maxId, uniqueNames, StripLokiProperties(doc))
       IN /\ data' = r.data
          /\ maxId' = r.maxId
          /\ Done("upsert", r.err)

\* mutant: the insert path passes the object on as it came, $loki and meta
\* included
upsert_NoStrip(doc) ==
    /\ pc = "idle" /\ present
    /\ LET id == doc.loki
           r == IF id # AbsentID /\ id # 0 /\ PosOf(data, id) # 0
                THEN EngineUpdate(data, maxId, uniqueNames, doc)
                ELSE EngineInsertOne(data, maxId, uniqueNames, doc)
       IN /\ data' = r.data
          /\ maxId' = r.maxId
          /\ Done("upsert", r.err)

\* upsert(doc)
upsert(doc) ==
    /\ pc = "idle" /\ present
    /\ LET id == doc.loki
           r == IF id # AbsentID /\ id # 0 /\ PosOf(data, id) # 0
                THEN EngineUpdate(data, maxId, uniqueNames, doc)
                ELSE EngineInsertOne(data, maxId, uniqueNames, StripLokiProperties(doc))
       IN /\ data' = r.data
          /\ maxId' = r.maxId
          /\ Done("upsert", r.err)

\* validateAndInsert(doc)
validateAndInsert(doc) ==
    /\ pc = "idle" /\ present
    /\ IF validateObjectSchemaError(objectSchema, doc)
       THEN /\ DoneAfter("validateAndInsert", "ValidationError(schema)",
                         <<"validateObjectSchema">>)
            /\ UNCHANGED <<data, maxId>>
       ELSE IF validateUniquePropertiesError(data, uniqueNames, doc, NoDoc)
       THEN /\ DoneAfter("validateAndInsert", "ValidationError(unique)",
                         <<"validateObjectSchema", "validateUniqueProperties">>)
            /\ UNCHANGED <<data, maxId>>
       ELSE LET validated == ObjectSchemaValue(objectSchema, doc)
                r == EngineInsertOne(data, maxId, uniqueNames, validated)
            IN /\ data' = r.data
               /\ maxId' = r.maxId
               /\ DoneAfter("validateAndInsert", r.err,
                            <<"validateObjectSchema", "validateUniqueProperties",
                              "insert">>)

\* validateAndReplace(doc)
validateAndReplace(doc) ==
    /\ pc = "idle" /\ present
    /\ LET found == getByIDError(data, doc.loki)
           existing == data[PosOf(data, doc.loki)]
           validated == ObjectSchemaValue(objectSchema, doc)
           r == EngineUpdate(data, maxId, uniqueNames, Replaced(existing, validated))
       IN IF found # "ok"
          THEN /\ DoneAfter("validateAndReplace", found, <<"getByID">>)
               /\ UNCHANGED <<data, maxId>>
          ELSE IF validateObjectSchemaError(objectSchema, doc)
          THEN /\ DoneAfter("validateAndReplace", "ValidationError(schema)",
                            <<"getByID", "validateObjectSchema">>)
               /\ UNCHANGED <<data, maxId>>
          ELSE IF validateUniquePropertiesError(data, uniqueNames, validated, existing)
          THEN /\ DoneAfter("validateAndReplace", "ValidationError(unique)",
                            <<"getByID", "validateObjectSchema",
                              "validateUniqueProperties">>)
               /\ UNCHANGED <<data, maxId>>
          ELSE /\ data' = r.data
               /\ maxId' = r.maxId
               /\ DoneAfter("validateAndReplace", r.err,
                            <<"getByID", "validateObjectSchema",
                              "validateUniqueProperties", "update">>)

\* validateAndPatch(doc).  _.pick is shallow: the merge target's meta is the
\* stored record's own meta object, which _.defaultsDeep merges into in place,
\* before the schema is checked.
validateAndPatch(doc) ==
    /\ pc = "idle" /\ present
    /\ LET found == getByIDError(data, doc.loki)
           pos == PosOf(data, doc.loki)
           existing == data[pos]
           patched == Patched(existing, doc)
           merged == [data EXCEPT ![pos].meta = patched.meta]
           r == EngineUpdate(merged, maxId, uniqueNames, patched)
       IN IF found # "ok"
          THEN /\ DoneAfter("validateAndPatch", found, <<"getByID">>)
               /\ UNCHANGED <<data, maxId>>
          ELSE IF validateUniquePropertiesError(data, uniqueNames, doc, existing)
          THEN /\ DoneAfter("validateAndPatch", "ValidationError(unique)",
                            <<"getByID", "validateUniqueProperties">>)
               /\ UNCHANGED <<data, maxId>>
          ELSE IF validateObjectSchemaError(objectSchema, patched)
          THEN /\ data' = merged
               /\ DoneAfter("validateAndPatch", "ValidationError(schema)",
                            <<"getByID", "validateUniqueProperties",
                              "validateObjectSchema">>)
               /\ UNCHANGED maxId
          ELSE /\ data' = r.data
               /\ maxId' = r.maxId
               /\ DoneAfter("validateAndPatch", r.err,
                            <<"getByID", "validateUniqueProperties",
                              "validateObjectSchema", "update">>)

\* mutant: a field without a unique index is looked up to no avail
removeBy_NoLookupError(field, value) ==
    /\ pc = "idle" /\ present
    /\ IF value = UNDEF
       THEN Done("removeBy", "Error") /\ UNCHANGED <<data, maxId>>
       ELSE /\ data' = IF field \in uniqueNames /\ PosBy(data, field, value) # 0
                       THEN EngineRemove(data, data[PosBy(data, field, value)].loki)
                       ELSE data
            /\ Done("removeBy", "ok")
            /\ UNCHANGED maxId

\* removeBy(field, value): by(field) without a value yields no record but a
\* lookup function, which remove() refuses
removeBy(field, value) ==
    /\ pc = "idle" /\ present
    /\ IF value = UNDEF
       THEN Done("removeBy", "Error") /\ UNCHANGED <<data, maxId>>
       ELSE IF field \notin uniqueNames
       THEN Done("removeBy", "TypeError") /\ UNCHANGED <<data, maxId>>
       ELSE /\ data' = IF PosBy(data, field, value) # 0
                       THEN EngineRemove(data, data[PosBy(data, field, value)].loki)
                       ELSE data
            /\ Done("removeBy", "ok")
            /\ UNCHANGED maxId

\* mutant: the removed object itself is returned, not a clone taken before
\* remove() took its $loki and meta away
removeByID_NoClone(id) ==
    /\ pc = "idle" /\ present
    /\ LET found == getByIDError(data, id)
           doc == data[PosOf(data, lokiIDValue(id))]
       IN /\ data' = IF found = "ok" THEN EngineRemove(data, doc.loki) ELSE data
          /\ DoneReturning("removeByID", found, <<"getByID">>,
                           IF found = "ok" THEN StripLokiProperties(doc) ELSE NoDoc)
          /\ UNCHANGED maxId

\* removeByID(id)
removeByID(id) ==
    /\ pc = "idle" /\ present
    /\ LET found == getByIDError(data, id)
           doc == data[PosOf(data, lokiIDValue(id))]
       IN /\ data' = IF found = "ok" THEN EngineRemove(data, doc.loki) ELSE data
          /\ DoneReturning("removeByID", found, <<"getByID">>,
                           IF found = "ok" THEN doc ELSE NoDoc)
          /\ UNCHANGED maxId

----------------------------------------------------------------------------
(* Plain uses of the database, as the tests set a collection up:           *)
(* db.addCollection(name, { unique }) and collection.insert(doc).          *)

dbAddCollection(U) ==
    /\ pc = "idle" /\ ~present
    /\ present' = TRUE
    /\ registry' = Append(registry, collectionName)
    /\ uniqueNames' = U
    /\ data' = <<>>
    /\ maxId' = 0
    /\ lastOp' = "addCollection"
    /\ err' = "ok"
    /\ calls' = <<>>
    /\ pre' = NoSnapshot
    /\ existingData' = <<>>
    /\ returned' = NoDoc
    /\ answer' = "none"
    /\ asked' = NoInput
    /\ run' = NoRun
    /\ UNCHANGED <<cfgVars, siblings, promise, pc>>

dbInsert(doc) ==
    /\ pc = "idle" /\ present
    /\ LET r == EngineInsertOne(data, maxId, uniqueNames, doc)
       IN /\ data' = r.data
          /\ maxId' = r.maxId
          /\ Done("insert", r.err)

\* db.addCollection(name, { unique }) under another name
dbAddSibling(name, U) ==
    /\ pc = "idle"
    /\ name \notin Range(registry)
    /\ registry' = Append(registry, name)
    /\ siblings' = [siblings EXCEPT ![name] = [count |-> 0, unique |-> U]]
    /\ lastOp' = "addCollection"
    /\ err' = "ok"
    /\ calls' = <<>>
    /\ pre' = NoSnapshot
    /\ existingData' = <<>>
    /\ returned' = NoDoc
    /\ answer' = "none"
    /\ asked' = NoInput
    /\ run' = NoRun
    /\ UNCHANGED <<present, data, maxId, uniqueNames, cfgVars, promise, pc>>

\* collection.insert(doc) on a collection registered under another name
dbInsertSibling(name) ==
    /\ pc = "idle"
    /\ name \in Range(registry)
    /\ siblings[name].count < MaxId
    /\ siblings' = [siblings EXCEPT ![name].count = @ + 1]
    /\ lastOp' = "insert"
    /\ err' = "ok"
    /\ calls' = <<>>
    /\ pre' = NoSnapshot
    /\ existingData' = <<>>
    /\ returned' = NoDoc
    /\ answer' = "none"
    /\ asked' = NoInput
    /\ run' = NoRun
    /\ UNCHANGED <<dbVars, cfgVars, promise, pc>>

----------------------------------------------------------------------------
(* lib/db.js: clearDatabase and clearAllData, on the whole database *)

\* a helper of the database ends, having made one call per collection
Swept(op, what) ==
    /\ lastOp' = op
    /\ err' = "ok"
    /\ calls' = [i \in 1..Len(registry) |-> what]
    /\ pre' = Snapshot
    /\ existingData' = <<>>
    /\ returned' = NoDoc
    /\ answer' = "none"
    /\ asked' = NoInput
    /\ run' = NoRun
    /\ UNCHANGED <<cfgVars, promise, pc>>

\* collectionNames.forEach(name => db.removeCollection(name)): the names
\* left on db.collections after every name of `todo` was removed
RECURSIVE RemoveEach(_, _)
RemoveEach(names, todo) ==
    IF todo = <<>> THEN names
    ELSE RemoveEach(Unregistered(names, Head(todo)), Tail(todo))

\* db.collections.forEach(c => db.removeCollection(c.name)): the names left
\* when the sequence being walked is the one being shortened
RECURSIVE RemoveWhileWalking(_, _)
RemoveWhileWalking(names, i) ==
    IF i > Len(names) THEN names
    ELSE RemoveWhileWalking(Unregistered(names, names[i]), i + 1)

\* the database with only the names `left` still registered
Keeping(left) ==
    /\ registry' = left
    /\ present' = (collectionName \in Range(left))
    /\ IF collectionName \in Range(left)
       THEN UNCHANGED <<data, maxId, uniqueNames>>
       ELSE data' = <<>> /\ maxId' = 0 /\ uniqueNames' = {}
    /\ siblings' = [name \in OtherNames |->
                       IF name \in Range(left) THEN siblings[name] ELSE NoSibling]

\* mutant: the collections are removed while db.collections is walked
clearDatabase_WhileWalking ==
    /\ pc = "idle"
    /\ Keeping(RemoveWhileWalking(registry, 1))
    /\ Swept("clearDatabase", "removeCollection")

\* clearDatabase(db): the names are copied first, then each is removed
clearDatabase ==
    /\ pc = "idle"
    /\ Keeping(RemoveEach(registry, registry))
    /\ Swept("clearDatabase", "removeCollection")

\* collection.clear(): no record is left, the storage IDs start again and the
\* unique fields stay enforced
EngineClear(U) == [data |-> <<>>, maxId |-> 0, uniqueNames |-> U]

\* mutant: clear({ removeIndices: true }) on every collection
clearAllData_RemoveIndices ==
    /\ pc = "idle"
    /\ data' = <<>>
    /\ maxId' = 0
    /\ uniqueNames' = {}
    /\ siblings' = [name \in OtherNames |->
                       IF name \in Range(registry) THEN NoSibling ELSE siblings[name]]
    /\ UNCHANGED <<present, registry>>
    /\ Swept("clearAllData", "clear")

\* mutant: the collections are dropped, not emptied
clearAllData_Drop ==
    /\ pc = "idle"
    /\ Keeping(<<>>)
    /\ Swept("clearAllData", "clear")

\* clearAllData(db): db.collections.forEach(collection => collection.clear());
\* clear() empties the records and restarts the storage IDs
clearAllData ==
    /\ pc = "idle"
    /\ LET cleared == EngineClear(uniqueNames)
       IN /\ data' = cleared.data
          /\ maxId' = cleared.maxId
          /\ uniqueNames' = cleared.uniqueNames
    /\ siblings' = [name \in OtherNames |->
                       IF name \in Range(registry)
                       THEN [count |-> Len(EngineClear(siblings[name].unique).data),
                             unique |-> EngineClear(siblings[name].unique).uniqueNames]
                       ELSE siblings[name]]
    /\ UNCHANGED <<present, registry>>
    /\ Swept("clearAllData", "clear")

----------------------------------------------------------------------------
(* lib/db.js: loadDatabasePromise, saveDatabasePromise and                 *)
(* deleteDatabasePromise.  The helper returns a pending promise and hands  *)
(* the engine a callback; the engine fires the callback later, between     *)
(* other calls.                                                            *)

\* the database object the helpers are given
DB == "db"

\* what the engine reports to the callback: no error (null or nothing), or an error
IOError == "Error(io)"

Reports == {NULL, UNDEF, IOError}

Helpers == {"loadDatabasePromise", "saveDatabasePromise", "deleteDatabasePromise"}

\* what the helpers leave alone
syncVars == <<dbVars, siblings, run, cfgVars, pc, existingData, calls, pre, lastOp, err,
              returned, answer, asked>>

\* mutant: the last report decides, as with a plain callback
Settled_LastReport(p, state, value) ==
    [p EXCEPT !.state = state, !.value = value, !.settled = @ + 1]

\* resolve(value) / reject(value) of a Promise: only a pending promise settles
Settled(p, state, value) ==
    IF p.state = "pending"
    THEN [p EXCEPT !.state = state, !.value = value, !.settled = @ + 1]
    ELSE p

\* new Promise((resolve, reject) => { db.<op>(..., callback) })
callHelper(op) ==
    /\ pc = "idle"
    /\ promise' = [op |-> op, state |-> "pending", value |-> UNDEF, reports |-> <<>>,
                   settled |-> 0]
    /\ UNCHANGED syncVars

\* the callback: error => (error ? reject(error) : resolve(db))
callback(error) ==
    /\ promise.op \in Helpers
    /\ Len(promise.reports) < MaxReports
    /\ LET fired == [promise EXCEPT !.reports = Append(@, error)]
       IN promise' = IF Truthy(error)
                     THEN Settled(fired, "rejected", error)
                     ELSE Settled(fired, "resolved", DB)
    /\ UNCHANGED syncVars

----------------------------------------------------------------------------
(* Initializer runs against collections of any prior shape *)

InitDocs == [loki : {AbsentID}, meta : {UNDEF}, slug : {UNDEF, ZERO, "a", "b"},
             content : {UNDEF, "a"}, isDisabled : {UNDEF}]

Empty ==
    /\ present = FALSE
    /\ registry = <<>>
    /\ siblings = [name \in OtherNames |-> NoSibling]
    /\ promise = NoPromise
    /\ run = NoRun
    /\ data = <<>>
    /\ maxId = 0
    /\ uniqueNames = {}
    /\ pc = "idle"
    /\ existingData = <<>>
    /\ calls = <<>>
    /\ pre = NoSnapshot
    /\ lastOp = "none"
    /\ err = "none"
    /\ returned = NoDoc
    /\ answer = "none"
    /\ asked = NoInput

InitInit ==
    /\ Empty
    /\ constructed = TRUE
    /\ uniqueKeys \in SUBSET UniqueCandidates
    /\ collectionSchema \in CollectionSchemas
    /\ objectSchema = "any"

InitializerStep ==
    \/ preCreate \/ addCollection \/ postCreate
    \/ preRebuild \/ rebuildValidate \/ removeCollection \/ rebuildInsert
    \/ postRebuild \/ initializeReturn

InitNext ==
    \/ \E U \in SUBSET UniqueCandidates : dbAddCollection(U)
    \/ \E doc \in InitDocs : maxId < MaxId /\ dbInsert(doc)
    \/ \E id \in 1..MaxId : removeByID(id)
    \/ create
    \/ rebuild
    \/ initialize
    \/ InitializerStep

SpecInit == InitInit /\ [][InitNext]_vars

----------------------------------------------------------------------------
(* The validated operations on an initialized collection, with unique      *)
(* fields holding null, falsy and string values.                           *)

Docs == [loki : {AbsentID} \cup (1..MaxId), meta : {"{}"},
         slug : {UNDEF, NULL, ZERO, "a", "b"}, content : {UNDEF},
         isDisabled : {UNDEF}]

Init ==
    /\ Empty
    /\ constructed = TRUE
    /\ uniqueKeys \in {{"slug"}, {"slug", "content"}}
    /\ objectSchema \in ObjectSchemas
    /\ collectionSchema = IF objectSchema = "object" THEN "array" ELSE "any"

Next ==
    \/ initialize
    \/ rebuild
    \/ InitializerStep
    \/ \E doc \in Docs : (maxId < MaxId \/ PosOf(data, doc.loki) # 0) /\ upsert(doc)
    \/ \E doc \in Docs : maxId < MaxId /\ validateAndInsert(doc)
    \/ \E doc \in Docs : validateAndReplace(doc)
    \/ \E doc \in Docs : validateAndPatch(doc)
    \/ \E f \in UniqueCandidates, v \in {NULL, ZERO, "a", "b"} : removeBy(f, v)
    \/ \E id \in 1..MaxId : removeByID(id)

Spec == Init /\ [][Next]_vars

----------------------------------------------------------------------------
(* validateUniqueProperties called on its own, on a collection with two    *)
(* unique fields (u1 and u2 of its tests), for every record and every      *)
(* choice of `existing` among the live records.                            *)

UniqueDocs == [loki : {AbsentID}, meta : {UNDEF},
               slug : {UNDEF, NULL, ZERO, "a", "b"}, content : {UNDEF, "a"},
               isDisabled : {UNDEF}]

UniqueInit ==
    /\ Empty
    /\ constructed = TRUE
    /\ uniqueKeys = {"slug", "content"}
    /\ objectSchema = "any"
    /\ collectionSchema = "any"

UniqueNext ==
    \/ initialize
    \/ rebuild
    \/ InitializerStep
    \/ \E doc \in UniqueDocs : maxId < MaxId /\ upsert(doc)
    \/ \E doc \in UniqueDocs : maxId < MaxId /\ validateAndInsert(doc)
    \/ \E doc \in UniqueDocs, existing \in {NoDoc} \cup Range(data) :
          validateUniqueProperties(doc, existing)

SpecUnique == UniqueInit /\ [][UniqueNext]_vars

----------------------------------------------------------------------------
(* validateAndInsert, validateAndReplace and validateAndPatch with records *)
(* that carry a metadata mapping of their own and nested mappings as field *)
(* values, under the default record schema and under the tests' schema.    *)

PatchDocs == [loki : {AbsentID} \cup (1..MaxId), meta : {UNDEF, "{x:1}"},
              slug : {UNDEF, "a"},
              content : {UNDEF, "a", "{x:1}"},
              isDisabled : {UNDEF}]

PatchInit ==
    /\ Empty
    /\ constructed = TRUE
    /\ uniqueKeys = {"slug"}
    /\ objectSchema \in ObjectSchemas
    /\ collectionSchema = IF objectSchema = "object" THEN "array" ELSE "any"

\* one storage ID stays unused, so that replace and patch also meet IDs
\* that no record has
PatchNext ==
    \/ initialize
    \/ rebuild
    \/ InitializerStep
    \/ \E doc \in PatchDocs : maxId + 1 < MaxId /\ validateAndInsert(doc)
    \/ \E doc \in PatchDocs : validateAndReplace(doc)
    \/ \E doc \in PatchDocs : validateAndPatch(doc)

SpecPatch == PatchInit /\ [][PatchNext]_vars

----------------------------------------------------------------------------
(* validateAndPatch under the default record schema, which lets any value  *)
(* through: fields holding null, a string or a nested mapping are patched  *)
(* with null, a string or a nested mapping.                                *)

MergeDocs == [loki : {AbsentID} \cup (1..MaxId), meta : {UNDEF},
              slug : {UNDEF, "a"},
              content : {UNDEF, NULL, "a", "{}", "{x:1}", "{x:2}"},
              isDisabled : {UNDEF}]

MergeInit ==
    /\ Empty
    /\ constructed = TRUE
    /\ uniqueKeys = {"slug"}
    /\ objectSchema = "any"
    /\ collectionSchema = "any"

MergeNext ==
    \/ initialize
    \/ rebuild
    \/ InitializerStep
    \/ \E doc \in MergeDocs : maxId + 1 < MaxId /\ validateAndInsert(doc)
    \/ \E doc \in MergeDocs : validateAndPatch(doc)

SpecMerge == MergeInit /\ [][MergeNext]_vars

----------------------------------------------------------------------------
(* upsert with objects that carry a storage ID and metadata of their own,  *)
(* as objects read from the collection and modified do, on a collection    *)
(* from which records are also removed.                                    *)

UpsertDocs == [loki : {AbsentID} \cup (1..MaxId), meta : {"{}", "{x:1}"},
               slug : {UNDEF, "a", "b"}, content : {UNDEF},
               isDisabled : {UNDEF}]

UpsertInit ==
    /\ Empty
    /\ constructed = TRUE
    /\ uniqueKeys = {"slug"}
    /\ objectSchema = "any"
    /\ collectionSchema = "any"

UpsertNext ==
    \/ initialize
    \/ rebuild
    \/ InitializerStep
    \/ \E doc \in UpsertDocs :
          (maxId < MaxId \/ PosOf(data, doc.loki) # 0) /\ upsert(doc)
    \/ \E id \in 1..MaxId : removeByID(id)

SpecUpsert == UpsertInit /\ [][UpsertNext]_vars

----------------------------------------------------------------------------
(* getByID, removeByID and removeBy, called with every kind of ID and with *)
(* null, falsy and string values, on a collection filled through upsert.   *)

\* what getByID and removeByID are called with: nothing, null, 'xxx', a
\* numeric string, a negative number, zero and positive integers
IDs == {AbsentID, NullID, TextID, StringID(1), -1} \cup (0..MaxId)

ReadDocs == [loki : {AbsentID}, meta : {UNDEF},
             slug : {UNDEF, NULL, ZERO, "a", "b"}, content : {UNDEF},
             isDisabled : {UNDEF}]

ReadValues == {NULL, ZERO, "a", "b"}

ReadInit ==
    /\ Empty
    /\ constructed = TRUE
    /\ uniqueKeys = {"slug"}
    /\ objectSchema = "any"
    /\ collectionSchema = "any"

ReadNext ==
    \/ initialize
    \/ rebuild
    \/ InitializerStep
    \/ \E doc \in ReadDocs : maxId < MaxId /\ upsert(doc)
    \/ \E id \in IDs : getByID(id)
    \/ \E id \in IDs : removeByID(id)
    \/ \E f \in UniqueCandidates, v \in ReadValues : removeBy(f, v)

SpecRead == ReadInit /\ [][ReadNext]_vars

----------------------------------------------------------------------------
(* Construction of an Initializer from every kind of unique-keys argument, *)
(* on a database that holds the collection or not, and its use afterwards. *)

KeyValues == UniqueCandidates \cup {EMPTY, SEVEN, JSTRUE, JSFALSE, NULL}

RECURSIVE SeqsUpTo(_, _)
SeqsUpTo(S, n) ==
    IF n = 0 THEN {<<>>}
    ELSE SeqsUpTo(S, n - 1)
         \cup {Append(q, x) : q \in {r \in SeqsUpTo(S, n - 1) : Len(r) = n - 1}, x \in S}

KeyInputs ==
    {[kind |-> "value", value |-> v, items |-> <<>>] : v \in KeyValues \cup {UNDEF}}
    \cup {[kind |-> "array", value |-> UNDEF, items |-> q] : q \in SeqsUpTo(KeyValues, MaxKeys)}

FactoryInit ==
    /\ Empty
    /\ constructed = FALSE
    /\ uniqueKeys = {}
    /\ collectionSchema \in CollectionSchemas
    /\ objectSchema = "any"

FactoryNext ==
    \/ \E input \in KeyInputs : Initializer(input)
    \/ shouldRebuildCall
    \/ \E U \in SUBSET UniqueCandidates : dbAddCollection(U)
    \/ initialize
    \/ rebuild
    \/ InitializerStep

SpecFactory == FactoryInit /\ [][FactoryNext]_vars

----------------------------------------------------------------------------
(* Constraint introspection on collections enforcing any of the candidate  *)
(* names, asked about single values and sequences of values.               *)

ConstraintInit ==
    /\ Empty
    /\ constructed = TRUE
    /\ uniqueKeys \in SUBSET UniqueCandidates
    /\ collectionSchema = "any"
    /\ objectSchema = "any"

ConstraintNext ==
    \/ \E U \in SUBSET UniqueCandidates : dbAddCollection(U)
    \/ \E input \in KeyInputs : hasConstraint(input)
    \/ shouldRebuildCall

SpecConstraint == ConstraintInit /\ [][ConstraintNext]_vars

----------------------------------------------------------------------------
(* The helpers of the database, on a database holding the configured       *)
(* collection among collections registered under other names.              *)

HelperDocs == [loki : {AbsentID}, meta : {UNDEF}, slug : {"a", "b"},
               content : {UNDEF}, isDisabled : {UNDEF}]

HelperInit ==
    /\ Empty
    /\ constructed = TRUE
    /\ uniqueKeys \in SUBSET {"slug"}
    /\ collectionSchema = "any"
    /\ objectSchema = "any"

HelperNext ==
    \/ \E U \in SUBSET {"slug"} : dbAddCollection(U)
    \/ \E name \in OtherNames, U \in SUBSET {"slug"} : dbAddSibling(name, U)
    \/ \E name \in OtherNames : dbInsertSibling(name)
    \/ \E doc \in HelperDocs : maxId < MaxId /\ dbInsert(doc)
    \/ clearAllData
    \/ clearDatabase
    \/ shouldRebuildCall
    \/ initialize
    \/ InitializerStep

SpecHelper == HelperInit /\ [][HelperNext]_vars

----------------------------------------------------------------------------
(* The promise helpers, their callbacks firing between other uses of the   *)
(* database, and an engine that may fire a callback more than once.        *)

PromiseNext ==
    \/ \E op \in Helpers : callHelper(op)
    \/ \E error \in Reports : callback(error)
    \/ \E name \in OtherNames : dbAddSibling(name, {})
    \/ clearDatabase

SpecPromise == HelperInit /\ [][PromiseNext]_vars

----------------------------------------------------------------------------
(* An initialized collection in use: every validated operation and the     *)
(* helpers of the database, between initialize() calls.                    *)

StableDocs == [loki : {AbsentID} \cup (1..MaxId), meta : {"{}"}, slug : {"a", "b"},
               content : {UNDEF}, isDisabled : {UNDEF}]

StableNext ==
    \/ \E U \in SUBSET {"slug"} : dbAddCollection(U)
    \/ initialize
    \/ InitializerStep
    \/ shouldRebuildCall
    \/ \E doc \in StableDocs :
          (maxId < MaxId \/ PosOf(data, doc.loki) # 0) /\ upsert(doc)
    \/ \E doc \in StableDocs : maxId < MaxId /\ validateAndInsert(doc)
    \/ \E doc \in StableDocs : validateAndReplace(doc)
    \/ \E doc \in StableDocs : validateAndPatch(doc)
    \/ \E v \in {"a", "b"} : removeBy("slug", v)
    \/ \E id \in 0..MaxId : getByID(id)
    \/ \E id \in 0..MaxId : removeByID(id)
    \/ clearAllData
    \/ clearDatabase

SpecStable == HelperInit /\ [][StableNext]_vars

----------------------------------------------------------------------------
(* Properties of the Initializer *)

\* a call that ran rebuild() (on its own or from initialize()) has ended
RebuildEnded == pc = "idle" /\ "preRebuild" \in Range(calls)

\* two records share a non-null value at a field of U
HasDuplicate(d, U) ==
    \E f \in U : \E i, j \in 1..Len(d) :
        i # j /\ NonNull(d[i][f]) /\ d[i][f] = d[j][f]

\* the validated, storage-field-stripped records of the collection rebuild() found
Replayed == CollectionSchemaValue(collectionSchema, StripAll(pre.data))

\* C1 as claimed: whenever rebuild() ends on an existing collection that held
\* two records sharing a non-null value at a required unique field, whatever
\* the collection schema, it has failed with ValidationError and the
\* collection still holds exactly the original records.
C1_RebuildRejectsDuplicates ==
    (RebuildEnded /\ pre.present /\ HasDuplicate(pre.data, uniqueKeys))
        => /\ IsValidationError(err)
           /\ present
           /\ data = pre.data

\* C2: whenever rebuild() ends on an existing collection whose stripped records
\* do not pass the collection schema, it has thrown ValidationError, the
\* collection is as it was (records, storage IDs, ID counter, enforced unique
\* set) and neither removeCollection, create nor insert was invoked.
C2_RebuildAtomicOnSchemaFailure ==
    (RebuildEnded /\ pre.present
                  /\ CollectionSchemaError(collectionSchema, StripAll(pre.data)))
        => /\ err = "ValidationError(schema)"
           /\ Snapshot = pre
           /\ Range(calls) \cap {"removeCollection", "preCreate", "addCollection",
                                 "postCreate", "insert", "postRebuild"} = {}

C2_Witness ==
    /\ RebuildEnded /\ pre.present
    /\ CollectionSchemaError(collectionSchema, StripAll(pre.data))
    /\ Len(data) >= 2
    /\ uniqueNames # uniqueKeys

\* C3 as claimed: after every successful initialize() the live collection
\* enforces exactly the configured unique set.
C3_EnforcedExactlyRequested ==
    (lastOp = "initialize" /\ pc = "idle" /\ err = "ok")
        => present /\ uniqueNames = uniqueKeys

\* C3 amended: after every successful initialize() the live collection enforces
\* every configured unique field: exactly the configured set when the collection
\* was absent or did not enforce all of it (it was rebuilt), and the set it
\* enforced before, possibly a strict superset, otherwise.
C3_EnforcedCoversRequested ==
    (lastOp = "initialize" /\ pc = "idle" /\ err = "ok")
        => /\ present
           /\ uniqueKeys \subseteq uniqueNames
           /\ IF pre.present /\ uniqueKeys \subseteq pre.uniqueNames
              THEN uniqueNames = pre.uniqueNames
              ELSE uniqueNames = uniqueKeys

C3_Witness ==
    /\ lastOp = "initialize" /\ pc = "idle" /\ err = "ok"
    /\ uniqueKeys # {}
    /\ uniqueKeys \subseteq uniqueNames
    /\ uniqueNames # uniqueKeys

\* C7: whenever rebuild() succeeds on an existing collection, the new collection
\* holds as many records as the old one, its records without their storage
\* fields are the validated stripped records of the old one in the same order,
\* and the storage IDs are the new engine's own: 1, 2, ... in that order.
C7_RebuildPreservesData ==
    (RebuildEnded /\ err = "ok" /\ pre.present)
        => /\ present
           /\ Len(data) = Len(pre.data)
           /\ StripAll(data) = Replayed
           /\ \A i \in 1..Len(data) : data[i].loki = i /\ data[i].meta = "{}"

C7_Witness ==
    /\ RebuildEnded /\ err = "ok" /\ pre.present
    /\ Len(pre.data) >= 2
    /\ collectionSchema = "array"
    /\ StripAll(pre.data) # StripAll(data)

\* C8: while rebuild() runs on an existing collection, removeCollection is
\* invoked only after the validation of the stripped data has succeeded, and
\* when postRebuild() is about to fire (and ever after) the collection exists
\* under the name, enforces the configured unique set and holds every replayed
\* record.
C8_RebuildOrdering ==
    /\ \A i \in 1..Len(calls) :
          calls[i] = "removeCollection"
              => /\ i > 1 /\ calls[i - 1] = "validate"
                 /\ pre.present
                 /\ ~CollectionSchemaError(collectionSchema, StripAll(pre.data))
    /\ (pc = "removeCollection") => (present /\ Snapshot = pre /\ existingData = Replayed)
    /\ (pc = "postRebuild" \/ "postRebuild" \in Range(calls))
          => /\ present
             /\ uniqueNames = uniqueKeys
             /\ pre.present => StripAll(data) = Replayed

C8_Witness ==
    /\ pc = "postRebuild"
    /\ pre.present
    /\ "removeCollection" \in Range(calls)
    /\ Len(data) >= 2

----------------------------------------------------------------------------
(* Properties of the validated operations *)

\* C4: in every state reached from an initialized collection by upsert,
\* validateAndInsert, validateAndReplace, validateAndPatch, removeBy,
\* removeByID, rebuild and initialize calls, whether they succeed or fail
\* (the states inside a running rebuild included), no two live records hold
\* the same non-null value at an enforced unique field.
C4_Uniqueness ==
    present => ~HasDuplicate(data, uniqueNames)

C4_Witness ==
    /\ lastOp = "upsert" /\ err = "Error"
    /\ "slug" \in uniqueNames
    /\ Len(data) >= 2
    /\ \A i \in 1..Len(data) : NonNull(data[i].slug)

\* the condition under which C9 says validateUniqueProperties fails
C9_Collides(d, U, doc, existing) ==
    \E f \in U : /\ NonNull(doc[f])
                 /\ existing = NoDoc \/ existing[f] # doc[f]
                 /\ \E i \in 1..Len(d) : d[i][f] = doc[f]

\* C9 as claimed: validateUniqueProperties(record, existing) throws
\* ValidationError exactly when some enforced unique field of record holds a
\* non-null value (0, false and "" included) that differs from existing's (or
\* existing is left out) and that a live record holds; otherwise it returns true.
C9_ValidateUniqueIff ==
    [][\A doc \in UniqueDocs, existing \in {NoDoc} \cup Range(data) :
          validateUniqueProperties(doc, existing)
              => (err' = IF C9_Collides(data, uniqueNames, doc, existing)
                         THEN "ValidationError(unique)" ELSE "ok")]_vars

----------------------------------------------------------------------------
(* Properties of validateAndInsert, validateAndReplace, validateAndPatch   *)

C5_Satisfies(d) == \A i \in 1..Len(d) : ~ObjectSchemaError(objectSchema, d[i])

\* C5 (schema soundness): a validateAndInsert, validateAndReplace or
\* validateAndPatch call on a collection whose records all satisfy the
\* record schema leaves every live record satisfying it; and a call whose
\* input (for patch: the merged result; for replace and patch the target
\* exists) fails the schema raises ValidationError and stores nothing: the
\* collection's records are as they were.
C5_SchemaSoundness ==
    [][\A doc \in PatchDocs :
          LET pos == PosOf(data, doc.loki)
          IN /\ ( /\ C5_Satisfies(data)
                  /\ \/ validateAndInsert(doc)
                     \/ validateAndReplace(doc)
                     \/ validateAndPatch(doc) )
                => C5_Satisfies(data')
             /\ ( /\ ObjectSchemaError(objectSchema, doc)
                  /\ \/ validateAndInsert(doc)
                     \/ pos # 0 /\ validateAndReplace(doc) )
                => IsValidationError(err') /\ data' = data
             /\ ( /\ pos # 0
                  /\ ObjectSchemaError(objectSchema, Patched(data[pos], doc))
                  /\ validateAndPatch(doc) )
                => IsValidationError(err') /\ data' = data]_vars

\* C6 (storage-field protection): after a successful validateAndReplace or
\* validateAndPatch the stored record has the storage ID and the metadata
\* its target had just before the call, whatever the input carried in
\* $loki and meta.  (The engine's own revision bookkeeping is not part of
\* the modelled metadata.)
C6_StorageFieldsProtected ==
    [][\A doc \in PatchDocs :
          LET pos == PosOf(data, doc.loki)
          IN ( /\ pos # 0
               /\ validateAndReplace(doc) \/ validateAndPatch(doc)
               /\ err' = "ok" )
             => /\ Len(data') = Len(data)
                /\ data'[pos].loki = data[pos].loki
                /\ data'[pos].meta = data[pos].meta]_vars

\* the value of key x of a nested mapping, UNDEF when it has none
C10_Key(m) == IF m = "{x:1}" THEN "1" ELSE IF m = "{x:2}" THEN "2" ELSE UNDEF

\* the nested mapping holding value v at key x
C10_Mapping(v) == IF v = "1" THEN "{x:1}" ELSE IF v = "2" THEN "{x:2}" ELSE "{}"

\* key by key: the supplied mapping's value, else the existing one's
C10_Merged(supplied, old) ==
    C10_Mapping(IF C10_Key(supplied) # UNDEF THEN C10_Key(supplied) ELSE C10_Key(old))

C10_Fields == {"slug", "content", "isDisabled"}

----------------------------------------------------------------------------
(* Properties of the single operations *)

\* the records of d other than the one at position pos are those of e
SameElsewhere(d, e, pos) ==
    /\ Len(d) = Len(e)
    /\ \A i \in 1..Len(d) : i # pos => d[i] = e[i]

\* doc holds, on a unique field, a non-null value of a live record other
\* than the one with storage ID selfId
C11_Collides(d, U, doc, selfId) ==
    \E f \in U : /\ NonNull(doc[f])
                 /\ \E i \in 1..Len(d) : d[i].loki # selfId /\ d[i][f] = doc[f]

\* C11 (validateAndReplace): when the storage ID resolves to E and the input
\* passes the schema, a replace that sets a unique field to a value held by
\* a different live record fails with ValidationError; any other replace
\* (one that keeps E's own unique value among them) succeeds, the record
\* count is unchanged, and the stored record has exactly the fields of the
\* validated input plus E's storage ID and metadata.
C11_Replace ==
    [][\A doc \in Docs :
          LET pos == PosOf(data, doc.loki)
              E == data[pos]
              validated == ObjectSchemaValue(objectSchema, doc)
          IN ( /\ pos # 0
               /\ ~ObjectSchemaError(objectSchema, doc)
               /\ validateAndReplace(doc) )
             => IF C11_Collides(data, uniqueNames, validated, E.loki)
                THEN IsValidationError(err') /\ data' = data
                ELSE /\ err' = "ok"
                     /\ SameElsewhere(data', data, pos)
                     /\ data'[pos] = [loki |-> E.loki, meta |-> E.meta,
                                      slug |-> validated.slug,
                                      content |-> validated.content,
                                      isDisabled |-> validated.isDisabled]]_vars

\* C12 (validateAndInsert): schema validation comes strictly before the
\* uniqueness check and that before the insert.  An input that fails the
\* schema raises ValidationError and no uniqueness check was made; an input
\* that holds, on a unique field, the value of a live record raises
\* ValidationError and insert was not invoked; and on success the three
\* steps ran in that order and exactly one record, equal to the validated
\* (defaulted) value, was added.
C12_InsertOrder ==
    [][\A doc \in Docs :
          validateAndInsert(doc)
          => IF ObjectSchemaError(objectSchema, doc)
             THEN /\ IsValidationError(err')
                  /\ calls' = <<"validateObjectSchema">>
                  /\ data' = data
             ELSE IF C11_Collides(data, uniqueNames, doc, AbsentID)
             THEN /\ IsValidationError(err')
                  /\ calls' = <<"validateObjectSchema", "validateUniqueProperties">>
                  /\ data' = data
             ELSE err' = "ok"
                  => /\ calls' = <<"validateObjectSchema", "validateUniqueProperties",
                                   "insert">>
                     /\ Len(data') = Len(data) + 1
                     /\ SubSeq(data', 1, Len(data)) = data
                     /\ StripLokiProperties(data'[Len(data')])
                           = StripLokiProperties(ObjectSchemaValue(objectSchema, doc))]_vars

\* C13 as stated (upsert): a record whose storage ID resolves to a live
\* record is updated in place; any other record is inserted as exactly one
\* new record with an engine-assigned storage ID and engine-generated
\* metadata, the supplied ones discarded, no error is raised and the
\* records that were live are unchanged.
C13_UpsertNeverFails ==
    [][\A doc \in UpsertDocs :
          LET pos == PosOf(data, doc.loki)
          IN upsert(doc)
             => /\ err' = "ok"
                /\ IF pos # 0
                   THEN data' = [data EXCEPT ![pos] = doc]
                   ELSE data' = Append(data, [doc EXCEPT !.loki = maxId + 1,
                                                         !.meta = "{}"])]_vars

\* C13, amended: as stated, provided the record does not hold, on a unique
\* field, a non-null value of another live record; if it does, the engine
\* raises an error on either path and every live record is unchanged.
C13_Upsert ==
    [][\A doc \in UpsertDocs :
          LET pos == PosOf(data, doc.loki)
          IN upsert(doc)
             => IF C11_Collides(data, uniqueNames, doc, doc.loki)
                THEN err' = "Error" /\ data' = data
                ELSE /\ err' = "ok"
                     /\ IF pos # 0
                        THEN data' = [data EXCEPT ![pos] = doc]
                        ELSE data' = Append(data, [doc EXCEPT !.loki = maxId + 1,
                                                              !.meta = "{}"])]_vars

\* an upsert has succeeded on a collection that has lost a record, and the
\* newest record has the engine's newest storage ID and fresh metadata
C13_Witness ==
    /\ lastOp = "upsert"
    /\ err = "ok"
    /\ Len(data) >= 1
    /\ Len(data) < maxId
    /\ data[Len(data)].loki = maxId
    /\ data[Len(data)].meta = "{}"

\* what the storage-ID schema takes for a positive integer: a positive
\* whole number, or the numeric string of one, which it converts
C14_PositiveInteger(id) == id \notin {AbsentID, NullID, TextID} /\ lokiIDValue(id) >= 1

\* C14 (getByID): an id that is no positive integer (missing, null, zero,
\* negative, non-numeric) fails with ValidationError; a positive integer
\* that no live record carries fails with ObjectNotFoundError; otherwise
\* the live record with that storage ID is returned; and the collection is
\* left as it was in all three cases.
C14_GetByID ==
    [][\A id \in IDs :
          getByID(id)
          => /\ UNCHANGED dbVars
             /\ IF ~C14_PositiveInteger(id)
                THEN err' = "ValidationError(id)" /\ returned' = NoDoc
                ELSE IF \A i \in 1..Len(data) : data[i].loki # lokiIDValue(id)
                THEN err' = "ObjectNotFoundError" /\ returned' = NoDoc
                ELSE /\ err' = "ok"
                     /\ returned' \in Range(data)
                     /\ returned'.loki = lokiIDValue(id)]_vars

\* getByID has returned a live record of a collection that holds two
C14_Witness ==
    /\ lastOp = "getByID"
    /\ err = "ok"
    /\ Len(data) = 2
    /\ returned \in Range(data)

\* id is the storage ID of a live record of d
C15_Resolves(d, id) ==
    C14_PositiveInteger(id) /\ \E i \in 1..Len(d) : d[i].loki = lokiIDValue(id)

\* removeByID(id) returns the record with that ID as it was and removes it
\* and nothing else
C15_Removed(id) ==
    /\ err' = "ok"
    /\ returned' \in Range(data)
    /\ returned'.loki = lokiIDValue(id)
    /\ Len(data') = Len(data) - 1
    /\ \A i \in 1..Len(data') : data'[i].loki # lokiIDValue(id)
    /\ data' = SelectSeq(data, LAMBDA r : r # returned')

\* C15 as stated (removeByID): when id resolves to a live record, a copy of
\* the record as it was is returned, the record is gone, the count drops by
\* one and every other record is unchanged; when id does not resolve,
\* ObjectNotFoundError is raised and the collection is unchanged.
C15_RemoveByIDNotFound ==
    [][\A id \in IDs :
          removeByID(id)
          => /\ UNCHANGED <<present, uniqueNames, maxId>>
             /\ IF C15_Resolves(data, id)
                THEN C15_Removed(id)
                ELSE /\ err' = "ObjectNotFoundError"
                     /\ data' = data]_vars

\* C15, amended: as stated when id resolves; when id is a positive integer
\* that does not resolve, ObjectNotFoundError is raised; when id is no
\* positive integer, ValidationError is raised; the collection is
\* unchanged in both.
C15_RemoveByID ==
    [][\A id \in IDs :
          removeByID(id)
          => /\ UNCHANGED <<present, uniqueNames, maxId>>
             /\ IF C15_Resolves(data, id)
                THEN C15_Removed(id)
                ELSE /\ err' = IF C14_PositiveInteger(id)
                               THEN "ObjectNotFoundError"
                               ELSE "ValidationError(id)"
                     /\ returned' = NoDoc
                     /\ data' = data]_vars

\* removeByID has returned a record that is no longer in the collection,
\* and another record is still there
C15_Witness ==
    /\ lastOp = "removeByID"
    /\ err = "ok"
    /\ returned # NoDoc
    /\ Len(data) >= 1
    /\ \A i \in 1..Len(data) : data[i].loki # returned.loki

\* the records of d whose field f equals v
C16_Matching(d, f, v) == {i \in 1..Len(d) : d[i][f] = v}

\* the records of d without those whose field f equals v
C16_Without(d, f, v) == SelectSeq(d, LAMBDA r : r[f] # v)

----------------------------------------------------------------------------
(* Properties of the Initializer's construction and checks *)

\* a single non-empty string, a sequence of non-empty strings without
\* duplicates, or nothing (the default, an empty sequence)
C17_Acceptable(input) ==
    IF input.kind = "value"
    THEN input.value \in UniqueCandidates \cup {UNDEF}
    ELSE /\ \A i \in 1..Len(input.items) : input.items[i] \in UniqueCandidates
         /\ Cardinality(Range(input.items)) = Len(input.items)

\* the names an acceptable input stands for
C17_Names(input) ==
    IF input.kind = "array" THEN Range(input.items)
    ELSE IF input.value = UNDEF THEN {}
    ELSE {input.value}

\* C17 (construction): an Initializer is constructed, with the names given,
\* only from a single non-empty string or a sequence of non-empty strings
\* without duplicates (default: the empty sequence); every other input (a
\* number, booleans, an empty string, null, duplicates) fails with
\* ValidationError and yields no Initializer; and construction performs
\* no database operation.
C17_Construction ==
    [][\A input \in KeyInputs :
          Initializer(input)
          => /\ UNCHANGED dbVars
             /\ calls' = <<>>
             /\ IF C17_Acceptable(input)
                THEN err' = "ok" /\ constructed' /\ uniqueKeys' = C17_Names(input)
                ELSE err' = "ValidationError(uniqueKeys)" /\ ~constructed']_vars

\* construction from a sequence of two names has succeeded
C17_Witness ==
    /\ lastOp = "Initializer"
    /\ err = "ok"
    /\ constructed
    /\ Cardinality(uniqueKeys) = 2

\* C18 (shouldRebuild): it returns true if and only if no collection is
\* registered under the name or the registered collection does not enforce
\* uniqueness on every configured unique field name; and it changes
\* nothing in the database.
C18_ShouldRebuild ==
    [][shouldRebuildCall
       => /\ UNCHANGED dbVars
          /\ answer' = IF ~present \/ \E k \in uniqueKeys : k \notin uniqueNames
                       THEN "true" ELSE "false"]_vars

\* shouldRebuild() has answered false on a collection that enforces more
\* than the Initializer requires
C18_Witness ==
    /\ lastOp = "shouldRebuild"
    /\ answer = "false"
    /\ present
    /\ uniqueKeys # uniqueNames

\* initialize() has ended, by returning or by throwing
C19_InitializeEnded == lastOp = "initialize" /\ pc = "idle"

\* the collection initialize() was called on exists and enforces every
\* configured unique field name
C19_Conforming == pre.present /\ uniqueKeys \subseteq pre.uniqueNames

\* the number of times rebuild() was entered: preRebuild() is its first statement
C19_Rebuilds == Cardinality({i \in 1..Len(calls) : calls[i] = "preRebuild"})

\* initialize() made no call and left the collection as it was
C19_Untouched ==
    /\ err = "ok"
    /\ calls = <<>>
    /\ Snapshot = pre
    /\ answer = "collection"

\* C19 as claimed: initialize() on a collection that exists and satisfies the
\* required unique set invokes neither rebuild(), create() nor a hook, returns
\* the collection registered under the name and leaves it unchanged; on an
\* absent or violating collection it invokes rebuild() exactly once and
\* returns the collection registered under the name afterwards.
C19_InitializeAlwaysReturns ==
    C19_InitializeEnded
        => IF C19_Conforming
           THEN C19_Untouched
           ELSE C19_Rebuilds = 1 /\ err = "ok" /\ present /\ answer = "collection"

\* C19 amended: as claimed on a conforming collection; on an absent or
\* violating collection initialize() invokes rebuild() exactly once, and it
\* returns the collection registered under the name afterwards when
\* rebuild() returns, while an error thrown by rebuild() ends initialize()
\* with that error and nothing returned.
C19_Initialize ==
    C19_InitializeEnded
        => IF C19_Conforming
           THEN C19_Untouched
           ELSE /\ C19_Rebuilds = 1
                /\ err # "none"
                /\ IF err = "ok"
                   THEN present /\ answer = "collection"
                   ELSE answer = "none"

\* initialize() has rebuilt a violating collection that held records and
\* returned it
C19_Witness ==
    /\ C19_InitializeEnded
    /\ pre.present
    /\ ~C19_Conforming
    /\ Len(pre.data) >= 1
    /\ err = "ok"
    /\ answer = "collection"
    /\ Len(data) = Len(pre.data)

\* the names a check was asked about, a single value counting as a
\* one-element sequence
C20_Names == IF asked.kind = "array" THEN Range(asked.items) ELSE {asked.value}

\* the same names in the opposite order
C20_Reversed ==
    [asked EXCEPT !.items = [i \in 1..Len(asked.items)
                                |-> asked.items[Len(asked.items) + 1 - i]]]

\* C20 (hasUniqueProperties): the answer is true if and only if every name
\* asked about (a single string counting as a one-element sequence) is among
\* the collection's enforced unique field names; it is the same for the
\* names in the opposite order, true for the empty sequence and false for
\* names that only overlap the enforced set.
C20_HasUniqueProperties ==
    lastOp = "hasUniqueProperties"
        => /\ answer = IF C20_Names \subseteq uniqueNames THEN "true" ELSE "false"
           /\ hasUniqueProperties(uniqueNames, C20_Reversed) = (answer = "true")
           /\ (asked.kind = "array" /\ asked.items = <<>>) => answer = "true"
           /\ (C20_Names \cap uniqueNames # {} /\ C20_Names \ uniqueNames # {})
                  => answer = "false"

\* hasUniqueProperties has answered false for two names of which the
\* collection enforces only the second
C20_Witness ==
    /\ lastOp = "hasUniqueProperties"
    /\ asked.kind = "array"
    /\ Len(asked.items) = 2
    /\ asked.items[1] \notin uniqueNames
    /\ asked.items[2] \in uniqueNames
    /\ answer = "false"

\* the collection was just added: empty, enforcing exactly the configured names
C21_FreshCollection == present /\ data = <<>> /\ uniqueNames = uniqueKeys

\* C21 (create): create() on an absent collection invokes preCreate() once,
\* then adds an empty collection enforcing exactly the configured unique
\* field names, then invokes postCreate() once, in that order: at every
\* step of a create() the calls made so far are a prefix of that sequence,
\* the collection is absent until it is added and fresh from then on.
C21_CreateOrder ==
    (lastOp = "create" /\ ~pre.present)
        => /\ pc = "create" => calls = <<>> /\ ~present
           /\ pc = "addCollection" => calls = <<"preCreate">> /\ ~present
           /\ pc = "postCreate"
                 => calls = <<"preCreate", "addCollection">> /\ C21_FreshCollection
           /\ pc = "idle"
                 => /\ calls = <<"preCreate", "addCollection", "postCreate">>
                    /\ C21_FreshCollection
                    /\ err = "ok"
           /\ pc \in {"create", "addCollection", "postCreate", "idle"}

\* create() has ended with two configured unique field names
C21_Witness ==
    /\ lastOp = "create"
    /\ pc = "idle"
    /\ ~pre.present
    /\ Cardinality(uniqueKeys) = 2
    /\ C21_FreshCollection

\* the number of times `what` was invoked in the call that ran last
C22_Count(what) == Cardinality({i \in 1..Len(calls) : calls[i] = what})

\* C22 (rebuild hooks): every successful rebuild() has invoked preRebuild()
\* exactly once, before any other step, and postRebuild() exactly once, as
\* its last step; on an absent collection it has delegated to create(), with
\* preCreate and postCreate once each between the two rebuild hooks, and
\* left an empty collection; a failed rebuild() never invoked postRebuild().
C22_RebuildHooks ==
    RebuildEnded
        => IF err = "ok"
           THEN /\ calls[1] = "preRebuild"
                /\ calls[Len(calls)] = "postRebuild"
                /\ C22_Count("preRebuild") = 1
                /\ C22_Count("postRebuild") = 1
                /\ ~pre.present
                      => /\ calls = <<"preRebuild", "getCollection", "preCreate",
                                      "addCollection", "postCreate", "postRebuild">>
                         /\ present
                         /\ data = <<>>
           ELSE C22_Count("postRebuild") = 0

\* rebuild() has ended on an absent collection
C22_Witness ==
    /\ RebuildEnded
    /\ lastOp = "rebuild"
    /\ err = "ok"
    /\ ~pre.present
    /\ present
    /\ C22_Count("preCreate") = 1

\* C23 (clearAllData): it leaves every collection of the database with no
\* record, every collection registered under its name as before with its
\* enforced unique field names unchanged, and an Initializer for which
\* shouldRebuild() was false before the call finds it false after it.
C23_ClearAllData ==
    [][clearAllData
       => /\ Len(data') = 0
          /\ \A name \in OtherNames :
                /\ siblings'[name].count = 0
                /\ siblings'[name].unique = siblings[name].unique
          /\ registry' = registry
          /\ present' = present
          /\ uniqueNames' = uniqueNames
          /\ ~shouldRebuild => ~shouldRebuild']_vars

\* clearAllData has emptied three collections, the configured one enforcing
\* its unique field and having held a record, and shouldRebuild() is false
C23_Witness ==
    /\ lastOp = "clearAllData"
    /\ Len(calls) = 3
    /\ Len(pre.data) >= 1
    /\ data = <<>>
    /\ uniqueNames = {"slug"}
    /\ ~shouldRebuild

\* C24 (clearDatabase): whatever the number of registered collections, after
\* the call no name that was registered is registered any more, none is
\* skipped, and shouldRebuild() of the Initializer is true.
C24_ClearDatabase ==
    [][clearDatabase
       => /\ \A name \in Range(registry) : name \notin Range(registry')
          /\ registry' = <<>>
          /\ ~present'
          /\ \A name \in OtherNames : siblings'[name] = NoSibling
          /\ shouldRebuild']_vars

\* clearDatabase has removed three collections, the configured one among
\* them having satisfied the Initializer
C24_Witness ==
    /\ lastOp = "clearDatabase"
    /\ Len(calls) = 3
    /\ pre.present
    /\ uniqueKeys \subseteq pre.uniqueNames
    /\ registry = <<>>
    /\ shouldRebuild

\* C25 (promise helpers): the promise of each helper is pending until the
\* callback fires; once it has fired the promise has settled exactly once,
\* resolved with the database object itself when the first report carried
\* no error and rejected with the reported error otherwise, whatever the
\* engine reports afterwards.
C25_SettlesOnce ==
    promise.op \in Helpers
        => IF promise.reports = <<>>
           THEN promise.state = "pending" /\ promise.settled = 0
           ELSE /\ promise.settled = 1
                /\ IF promise.reports[1] = IOError
                   THEN promise.state = "rejected" /\ promise.value = IOError
                   ELSE promise.state = "resolved" /\ promise.value = DB

\* the callback of saveDatabasePromise has fired twice, first without an
\* error and then with one
C25_Witness ==
    /\ promise.op = "saveDatabasePromise"
    /\ promise.reports = <<NULL, IOError>>
    /\ promise.state = "resolved"

\* C26 (failure atomicity): whenever validateAndInsert, validateAndReplace or
\* validateAndPatch raises an error, the collection holds the same live
\* records as before the call, each with the same field values, the
\* metadata of the targeted record included.
C26_FailureAtomicity ==
    [][\A doc \in PatchDocs :
          ( /\ err' # "ok"
            /\ \/ validateAndInsert(doc)
               \/ validateAndReplace(doc)
               \/ validateAndPatch(doc) )
          => data' = data]_vars

\* C27 (no data loss across retries): in initialize() calls made in a row
\* on the same Initializer of which an earlier one failed, no later call
\* returns successfully with a collection that holds fewer records than the
\* collection held before the first call.
C27_NoDataLossAcrossRetries ==
    (lastOp = "initialize" /\ pc = "idle" /\ err = "ok" /\ run.failed)
        => present /\ Len(data) >= run.first

\* the operations on an initialized collection the claim names
C28_Operations ==
    {"getByID", "removeBy", "upsert", "validateAndInsert", "validateAndReplace",
     "validateAndPatch", "removeByID", "clearAllData"}

\* C28 (stability of initialization): right after a successful initialize()
\* shouldRebuild() is false; getByID, removeBy, upsert, validateAndInsert,
\* validateAndReplace, validateAndPatch, removeByID and clearAllData neither
\* change the enforced unique field names nor unregister the collection, so
\* shouldRebuild() stays false over them; and it turns from false to true
\* only in a step that leaves the collection removed from the database.
C28_Stable ==
    [][/\ (lastOp' = "initialize" /\ pc' = "idle" /\ err' = "ok") => ~shouldRebuild'
       /\ (pc = "idle" /\ lastOp' \in C28_Operations)
              => /\ present' = present
                 /\ uniqueNames' = uniqueNames
                 /\ registry' = registry
                 /\ ~shouldRebuild => ~shouldRebuild'
       /\ (~shouldRebuild /\ shouldRebuild') => ~present']_vars

\* clearAllData has emptied a collection that initialize() had found
\* conforming, and shouldRebuild() is still false
C28_Witness ==
    /\ lastOp = "clearAllData"
    /\ Len(pre.data) >= 1
    /\ uniqueKeys = {"slug"}
    /\ present
    /\ data = <<>>
    /\ ~shouldRebuild

\* C29 (completeness of the validation layer): validateAndInsert,
\* validateAndReplace and validateAndPatch end well or fail with
\* ValidationError or ObjectNotFoundError only: once their own uniqueness
\* check has passed, the engine's insert or update raises no duplicate-key
\* error, whatever the unique fields hold (0 included).
C29_ValidationComplete ==
    (pc = "idle" /\ lastOp \in {"validateAndInsert", "validateAndReplace",
                                 "validateAndPatch"})
        => \/ err = "ok"
           \/ IsValidationError(err)
           \/ err = "ObjectNotFoundError"

====
